---- MODULE Spec2Model ----
(***************************************************************************)
(* Model of mill_local.Mill (src/mill_local/__init__.py): the client of    *)
(* the local HTTP API of a Mill heater.  Every public coroutine is split   *)
(* at its suspension points: the request is put on the wire (Call), the    *)
(* device answers (Respond) or the call is cut short (Timeout,             *)
(* TransportError), the body is read and judged (Decode), and the          *)
(* coroutine leaves its context managers and hands the outcome to the      *)
(* caller (Finish).                                                        *)
(*                                                                         *)
(* Text that the code concatenates (addresses, URLs, commands) is a        *)
(* sequence of one-character strings; a dict is a function from its keys.  *)
(* Responses are assumed to be served as application/json, as the mocked   *)
(* responses of src/tests are.                                             *)
(***************************************************************************)
EXTENDS Integers, Sequences, FiniteSets, TLC

VARIABLES device_ip, url, _status, pc, op, sent, response, outcome, result,
          logged, lastOk

vars == <<device_ip, url, _status, pc, op, sent, response, outcome, result,
          logged, lastOk>>

(* Number of callers that may have a call in flight on the same client. *)
NumTasks == 2

(* Longest device address handed to the constructor, counted in pieces. *)
MaxParts == 3

----------------------------------------------------------------------------
(* Text helpers *)

Whitespace == {" ", "\t", "\n"}

HttpScheme == <<"h", "t", "t", "p", ":", "/", "/">>

RECURSIVE Replace(_, _, _)
(* str.replace(old, new): every non-overlapping occurrence, left to right *)
Replace(s, old, new) ==
    IF Len(s) < Len(old) THEN s
    ELSE IF SubSeq(s, 1, Len(old)) = old
         THEN new \o Replace(SubSeq(s, Len(old) + 1, Len(s)), old, new)
         ELSE <<Head(s)>> \o Replace(Tail(s), old, new)

RECURSIVE LStrip(_)
LStrip(s) ==
    IF s # <<>> /\ Head(s) \in Whitespace THEN LStrip(Tail(s)) ELSE s

RECURSIVE RStrip(_)
RStrip(s) ==
    IF s # <<>> /\ s[Len(s)] \in Whitespace
    THEN RStrip(SubSeq(s, 1, Len(s) - 1)) ELSE s

(* str.strip() *)
Strip(s) == RStrip(LStrip(s))

(* The whitespace is stripped before the scheme and the slashes are removed *)
Normalize_StripFirst(raw) == Replace(Replace(Strip(raw), HttpScheme, <<>>), <<"/">>, <<>>)

(* Mill.__init__: device_ip.replace("http://", "").replace("/", "").strip() *)
Normalize(raw) == Strip(Replace(Replace(raw, HttpScheme, <<>>), <<"/">>, <<>>))

(* Mill.__init__: self.url = "http://" + self.device_ip *)
BaseUrl(ip) == HttpScheme \o ip

----------------------------------------------------------------------------
(* Dicts *)

EmptyDict == [k \in {} |-> ""]

(* dict.get(key, default) *)
Get(d, key, default) == IF key \in DOMAIN d THEN d[key] ELSE default

(* Python's None where a string is expected *)
None == "<None>"

(* class OperationMode(Enum) *)
OperationMode ==
    [CONTROL_INDIVIDUALLY |-> "Control individually",
     OFF                  |-> "OFF",
     WEEKLY_PROGRAM       |-> "Weekly program",
     INDEPENDENT_DEVICE   |-> "Independent device"]

(* Mill.version, Mill.name, Mill.mac_address *)
version == Get(_status, "version", "")

name == Get(_status, "name", "")

mac_address == Get(_status, "mac_address", None)

----------------------------------------------------------------------------
(* json.dumps of a dict given as its items in insertion order; a value is  *)
(* <<"str", text>> or <<"num", numeral>>.                                   *)

Quote(s) == <<"\"", s, "\"">>

DumpValue(v) == IF v[1] = "str" THEN Quote(v[2]) ELSE <<v[2]>>

RECURSIVE DumpItems(_)
DumpItems(items) ==
    IF items = <<>> THEN <<>>
    ELSE Quote(items[1][1]) \o <<": ">> \o DumpValue(items[1][2])
         \o (IF Len(items) > 1 THEN <<", ">> ELSE <<>>)
         \o DumpItems(Tail(items))

JsonDumps(items) == <<"{">> \o DumpItems(items) \o <<"}">>

----------------------------------------------------------------------------
(* Commands of the local API *)

CmdStatus == <<"s", "t", "a", "t", "u", "s">>

CmdControlStatus ==
    <<"c", "o", "n", "t", "r", "o", "l", "-", "s", "t", "a", "t", "u", "s">>

CmdSetTemperature ==
    <<"s", "e", "t", "-", "t", "e", "m", "p", "e", "r", "a", "t", "u", "r", "e">>

CmdOperationMode ==
    <<"o", "p", "e", "r", "a", "t", "i", "o", "n", "-", "m", "o", "d", "e">>

(* What each public method asks of _get_request / _post_request *)
SetTargetTemperaturePlan(target_temperature) ==
    [method |-> "POST", command |-> CmdSetTemperature,
     payload |-> << <<"type", <<"str", "Normal">> >>,
                    <<"value", <<"num", target_temperature>> >> >>]

SetOperationModePlan(mode) ==
    [method |-> "POST", command |-> CmdOperationMode,
     payload |-> << <<"mode", <<"str", mode>> >> >>]

GetStatusPlan == [method |-> "GET", command |-> CmdStatus, payload |-> <<>>]

FetchPlan == [method |-> "GET", command |-> CmdControlStatus, payload |-> <<>>]

Plan(c) ==
    CASE c.name = "set_target_temperature" -> SetTargetTemperaturePlan(c.arg)
      [] c.name = "set_operation_mode_control_individually" ->
             SetOperationModePlan(OperationMode.CONTROL_INDIVIDUALLY)
      [] c.name = "set_operation_mode_off" ->
             SetOperationModePlan(OperationMode.OFF)
      [] c.name = "connect" -> GetStatusPlan
      [] c.name = "get_status" -> GetStatusPlan
      [] c.name = "fetch_heater_and_sensor_data" -> FetchPlan

(* The separator is left out *)
RequestUrl_NoSlash(base, command) == base \o command

(* url=f"{self.url}/{command}" *)
RequestUrl(base, command) == base \o <<"/">> \o command

(* The request websession.get / websession.post is called with *)
BuildRequest(base, plan) ==
    [method |-> plan.method,
     url    |-> RequestUrl(base, plan.command),
     data   |-> IF plan.method = "POST" THEN JsonDumps(plan.payload) ELSE <<>>]

(* The request is sent a second time *)
Transmit_Twice(wire, req) == Append(Append(wire, req), req)

(* One call of websession.get / websession.post puts one request on the wire *)
Transmit(wire, req) == Append(wire, req)

----------------------------------------------------------------------------
(* Responses and their judgement *)

NoResponse == [status |-> 0, reason |-> "", body |-> [kind |-> "none", value |-> EmptyDict]]

(* await response.json(): None for an empty body or the JSON text null,   *)
(* the decoded dict for a JSON object, json.JSONDecodeError otherwise.    *)
ResponseJson(resp) ==
    CASE resp.body.kind = "json"    -> [exc |-> FALSE, none |-> FALSE, value |-> resp.body.value]
      [] resp.body.kind = "empty"   -> [exc |-> FALSE, none |-> TRUE,  value |-> EmptyDict]
      [] resp.body.kind = "null"    -> [exc |-> FALSE, none |-> TRUE,  value |-> EmptyDict]
      [] resp.body.kind = "garbage" -> [exc |-> TRUE,  none |-> FALSE, value |-> EmptyDict]

Sentinel == [status |-> ""]

(* The guard is missing *)
GuardMissingBody_Absent(j) == j.value

(* if json_response is None: json_response = {"status": ""} *)
GuardMissingBody(j) == IF j.none THEN Sentinel ELSE j.value

(* Off by one at the boundary *)
RaisesForStatus_Above400(resp) == resp.status > 400

(* response.raise_for_status() raises when the status is 400 or above *)
RaisesForStatus(resp) == resp.status >= 400

NoError == [type |-> "", status |-> -1, message |-> ""]

(* The error is built without the status of the response *)
ClientResponseError_NoStatus(resp) ==
    [type |-> "ClientResponseError", status |-> 0, message |-> resp.reason]

(* The aiohttp.ClientResponseError raise_for_status() builds and the bare *)
(* raise re-raises; errors that are not HTTP errors have no status (-1).   *)
ClientResponseError(resp) ==
    [type |-> "ClientResponseError", status |-> resp.status, message |-> resp.reason]

JSONDecodeError == [type |-> "JSONDecodeError", status |-> -1, message |-> ""]

TimeoutError == [type |-> "TimeoutError", status |-> -1, message |-> ""]

ClientConnectionError == [type |-> "ClientConnectionError", status |-> -1, message |-> ""]

Pending == [kind |-> "pending", none |-> TRUE, value |-> EmptyDict, error |-> NoError]

Return(v) == [kind |-> "return", none |-> FALSE, value |-> v, error |-> NoError]

ReturnNone == [kind |-> "return", none |-> TRUE, value |-> EmptyDict, error |-> NoError]

Raise(e) == [kind |-> "raise", none |-> TRUE, value |-> EmptyDict, error |-> e]

(* The reason is logged in place of the device's text *)
ErrorLogLine_ReasonAsText(method, command, resp, json_response) ==
    [method |-> method, command |-> command, status |-> resp.status,
     reason |-> resp.reason, text |-> resp.reason]

(* The _LOGGER.error line of _get_request / _post_request *)
ErrorLogLine(method, command, resp, json_response) ==
    [method |-> method, command |-> command, status |-> resp.status,
     reason |-> resp.reason, text |-> Get(json_response, "status", "")]

(* Mill._get_request from the moment the body has been read *)
_get_request(command, resp) ==
    LET j == ResponseJson(resp) IN
    IF j.exc THEN [outcome |-> Raise(JSONDecodeError), log |-> <<>>]
    ELSE LET json_response == GuardMissingBody(j) IN
         IF RaisesForStatus(resp)
         THEN [outcome |-> Raise(ClientResponseError(resp)),
               log |-> <<ErrorLogLine("GET", command, resp, json_response)>>]
         ELSE [outcome |-> Return(json_response), log |-> <<>>]

(* Mill._post_request from the moment the body has been read *)
_post_request(command, resp) ==
    LET j == ResponseJson(resp) IN
    IF j.exc THEN [outcome |-> Raise(JSONDecodeError), log |-> <<>>]
    ELSE LET json_response == GuardMissingBody(j) IN
         IF RaisesForStatus(resp)
         THEN [outcome |-> Raise(ClientResponseError(resp)),
               log |-> <<ErrorLogLine("POST", command, resp, json_response)>>]
         ELSE [outcome |-> ReturnNone, log |-> <<>>]

(* Every GET is cached *)
CachesResult_AnyGet(c) == Plan(c).method = "GET"

(* Only get_status (and connect, which delegates to it) assigns self._status *)
CachesResult(c) == c.name \in {"connect", "get_status"}

(* A failure clears the snapshot *)
AssignStatus_ClearOnError(old, out) == IF out.kind = "return" THEN out.value ELSE EmptyDict

(* The new mapping is merged into the old one *)
AssignStatus_Merge(old, out) ==
    IF out.kind = "return"
    THEN [k \in DOMAIN old \cup DOMAIN out.value |->
             IF k \in DOMAIN out.value THEN out.value[k] ELSE old[k]]
    ELSE old

(* Only the first snapshot is kept *)
AssignStatus_FirstWins(old, out) ==
    IF out.kind = "return" /\ old = EmptyDict THEN out.value ELSE old

(* get_status: self._status = await self._get_request("status") *)
AssignStatus(old, out) == IF out.kind = "return" THEN out.value ELSE old

(* What the public method hands to its caller *)
PublicResult(c, out) ==
    IF out.kind = "raise" THEN out
    ELSE IF Plan(c).method = "GET" THEN out ELSE ReturnNone

----------------------------------------------------------------------------
(* Inputs *)

RawAddresses ==
    { <<"m", "1">>,
      <<"h", "t", "t", "p", ":", "/", "/", "m", "1", "/">>,
      <<" ", "m", "2", " ">>,
      <<"h", "t", "t", "p", ":", "/", "/", "m", "/", "3">> }

Temperatures == {"20.5", "21"}

Calls ==
    {[name |-> n, arg |-> ""] :
        n \in {"connect", "get_status", "fetch_heater_and_sensor_data",
               "set_operation_mode_control_individually", "set_operation_mode_off"}}
    \cup {[name |-> "set_target_temperature", arg |-> v] : v \in Temperatures}

NoCall == [name |-> "", arg |-> ""]

StatusFull ==
    [status |-> "ok", version |-> "0x221017", name |-> "Mill panel",
     mac_address |-> "13:37:A6:5E:D3:CB"]

StatusPartial == [status |-> "ok", name |-> "Mill 2"]

GenericOk == [status |-> "ok"]

DeviceFailure == [status |-> "Failed to parse message body"]

Dicts == {StatusFull, StatusPartial, GenericOk, DeviceFailure, EmptyDict}

Bodies ==
    {[kind |-> "json", value |-> d] : d \in Dicts}
    \cup {[kind |-> k, value |-> EmptyDict] : k \in {"empty", "null", "garbage"}}

HttpStatuses == {200, 299, 304, 400, 500}

Reasons == {"OK", "Bad Request"}

Responses == [status : HttpStatuses, reason : Reasons, body : Bodies]

ConcCalls ==
    {[name |-> n, arg |-> ""] :
        n \in {"get_status", "fetch_heater_and_sensor_data", "set_operation_mode_off"}}

ConcResponses ==
    { [status |-> 200, reason |-> "OK", body |-> [kind |-> "json", value |-> StatusFull]],
      [status |-> 200, reason |-> "OK", body |-> [kind |-> "json", value |-> StatusPartial]],
      [status |-> 400, reason |-> "Bad Request", body |-> [kind |-> "empty", value |-> EmptyDict]] }

----------------------------------------------------------------------------
(* State after Mill(device_ip, websession) *)

InitWith(raws, tasks) ==
    /\ \E raw \in raws :
          /\ device_ip = Normalize(raw)
          /\ url = BaseUrl(Normalize(raw))
    /\ _status = EmptyDict
    /\ pc = [t \in tasks |-> "idle"]
    /\ op = [t \in tasks |-> NoCall]
    /\ sent = [t \in tasks |-> <<>>]
    /\ response = [t \in tasks |-> NoResponse]
    /\ outcome = [t \in tasks |-> Pending]
    /\ result = [t \in tasks |-> Pending]
    /\ logged = [t \in tasks |-> <<>>]
    /\ lastOk = [set |-> FALSE, value |-> EmptyDict]

Init == InitWith(RawAddresses, {1})

InitConc == InitWith({<<"m", "1">>}, 1..NumTasks)

(* A caller awaits a public method: the request goes out *)
Call(t, c) ==
    /\ pc[t] \in {"idle", "done"}
    /\ pc' = [pc EXCEPT ![t] = "awaiting"]
    /\ op' = [op EXCEPT ![t] = c]
    /\ sent' = [sent EXCEPT ![t] = Transmit(<<>>, BuildRequest(url, Plan(c)))]
    /\ response' = [response EXCEPT ![t] = NoResponse]
    /\ outcome' = [outcome EXCEPT ![t] = Pending]
    /\ result' = [result EXCEPT ![t] = Pending]
    /\ logged' = [logged EXCEPT ![t] = <<>>]
    /\ UNCHANGED <<device_ip, url, _status, lastOk>>

(* The device answers: "async with websession.get(...) as response" *)
Respond(t, r) ==
    /\ pc[t] = "awaiting"
    /\ pc' = [pc EXCEPT ![t] = "reading"]
    /\ response' = [response EXCEPT ![t] = r]
    /\ UNCHANGED <<device_ip, url, _status, op, sent, outcome, result, logged, lastOk>>

(* The body has been read: json(), the guard, raise_for_status() *)
Decode(t) ==
    /\ pc[t] = "reading"
    /\ LET r == IF Plan(op[t]).method = "GET"
                THEN _get_request(Plan(op[t]).command, response[t])
                ELSE _post_request(Plan(op[t]).command, response[t])
       IN /\ outcome' = [outcome EXCEPT ![t] = r.outcome]
          /\ logged' = [logged EXCEPT ![t] = r.log]
    /\ pc' = [pc EXCEPT ![t] = "exiting"]
    /\ UNCHANGED <<device_ip, url, _status, op, sent, response, result, lastOk>>

(* "async with timeout(self._timeout_seconds)" expires while suspended *)
Timeout(t) ==
    /\ pc[t] \in {"awaiting", "reading"}
    /\ pc' = [pc EXCEPT ![t] = "exiting"]
    /\ response' = [response EXCEPT ![t] = NoResponse]
    /\ outcome' = [outcome EXCEPT ![t] = Raise(TimeoutError)]
    /\ UNCHANGED <<device_ip, url, _status, op, sent, result, logged, lastOk>>

(* The connection fails before or while the response is read *)
TransportError(t) ==
    /\ pc[t] \in {"awaiting", "reading"}
    /\ pc' = [pc EXCEPT ![t] = "exiting"]
    /\ response' = [response EXCEPT ![t] = NoResponse]
    /\ outcome' = [outcome EXCEPT ![t] = Raise(ClientConnectionError)]
    /\ UNCHANGED <<device_ip, url, _status, op, sent, result, logged, lastOk>>

(* The coroutine leaves its context managers and resumes the public method *)
Finish(t) ==
    /\ pc[t] = "exiting"
    /\ pc' = [pc EXCEPT ![t] = "done"]
    /\ result' = [result EXCEPT ![t] = PublicResult(op[t], outcome[t])]
    /\ _status' = IF CachesResult(op[t]) THEN AssignStatus(_status, outcome[t])
                  ELSE _status
    /\ lastOk' = IF op[t].name \in {"connect", "get_status"} /\ outcome[t].kind = "return"
                 THEN [set |-> TRUE, value |-> outcome[t].value]
                 ELSE lastOk
    /\ UNCHANGED <<device_ip, url, op, sent, response, outcome, logged>>

(* Pieces device addresses are put together from: the scheme, its halves, *)
(* a slash, a blank, host characters.                                      *)
AddressPieces ==
    { HttpScheme, <<"h", "t">>, <<"t", "p", ":", "/", "/">>, <<"/">>, <<" ">>,
      <<"m">>, <<"1">>, <<".">> }

RECURSIVE AddressesOf(_)
(* Every concatenation of at most n pieces *)
AddressesOf(n) ==
    IF n = 0 THEN {<<>>}
    ELSE LET shorter == AddressesOf(n - 1) IN
         shorter \cup {a \o p : a \in shorter, p \in AddressPieces}

RawInputs == AddressesOf(MaxParts)

InitNorm == InitWith(RawInputs, {1})

(* Mill(device_ip, websession): a client is built for the address raw *)
Construct(raw) ==
    /\ device_ip' = Normalize(raw)
    /\ url' = BaseUrl(device_ip')
    /\ _status' = EmptyDict
    /\ pc' = [t \in DOMAIN pc |-> "idle"]
    /\ op' = [t \in DOMAIN pc |-> NoCall]
    /\ sent' = [t \in DOMAIN pc |-> <<>>]
    /\ response' = [t \in DOMAIN pc |-> NoResponse]
    /\ outcome' = [t \in DOMAIN pc |-> Pending]
    /\ result' = [t \in DOMAIN pc |-> Pending]
    /\ logged' = [t \in DOMAIN pc |-> <<>>]
    /\ lastOk' = [set |-> FALSE, value |-> EmptyDict]

(* A client is built for a new address, or for the address of this one *)
NextNorm == \E raw \in RawInputs \cup {device_ip} : Construct(raw)

SpecNorm == InitNorm /\ [][NextNorm]_vars

Next ==
    \E t \in DOMAIN pc :
        \/ \E c \in Calls : Call(t, c)
        \/ \E r \in Responses : Respond(t, r)
        \/ Decode(t)
        \/ Timeout(t)
        \/ TransportError(t)
        \/ Finish(t)

Spec == Init /\ [][Next]_vars

NextConc ==
    \E t \in DOMAIN pc :
        \/ \E c \in ConcCalls : Call(t, c)
        \/ \E r \in ConcResponses : Respond(t, r)
        \/ Decode(t)
        \/ Timeout(t)
        \/ TransportError(t)
        \/ Finish(t)

SpecConc == InitConc /\ [][NextConc]_vars

TypeOK ==
    /\ pc \in [DOMAIN pc -> {"idle", "awaiting", "reading", "exiting", "done"}]
    /\ \A t \in DOMAIN pc : Len(sent[t]) <= 1

----------------------------------------------------------------------------
(* Vocabulary of the properties *)

Tasks == DOMAIN pc

(* Task t holds a response the device sent for its current call *)
Received(t) == pc[t] \in {"exiting", "done"} /\ response[t].body.kind # "none"

(* Task t's call ended in an error raised to the caller *)
Failed(t) == pc[t] = "done" /\ result[t].kind = "raise"

(* Task t's call returned normally *)
Succeeded(t) == pc[t] = "done" /\ result[t].kind = "return"

(* The text of the status field of the body the device sent *)
DeviceText(resp) ==
    IF resp.body.kind = "json" /\ "status" \in DOMAIN resp.body.value
    THEN resp.body.value["status"] ELSE ""

IsStatusCall(c) == c.name \in {"connect", "get_status"}

IsCommandCall(c) ==
    c.name \in {"set_target_temperature", "set_operation_mode_control_individually",
                "set_operation_mode_off"}

(* Task t completes its call in this step *)
Completes(t) == pc[t] = "exiting" /\ pc'[t] = "done"

----------------------------------------------------------------------------
C4_SnapshotReplacedWholesale ==
    [][\A t \in Tasks :
          (Completes(t) /\ IsStatusCall(op[t]) /\ outcome[t].kind = "return")
              => /\ result'[t] = Return(outcome[t].value)
                 /\ _status' = outcome[t].value
                 /\ DOMAIN _status' = DOMAIN outcome[t].value
                 /\ version' = Get(outcome[t].value, "version", "")
                 /\ name' = Get(outcome[t].value, "name", "")
                 /\ mac_address' = Get(outcome[t].value, "mac_address", None)
                 /\ response[t].body.kind = "json"
                        => outcome[t].value = response[t].body.value]_vars

C4_Witness ==
    /\ Succeeded(1) /\ op[1].name = "get_status"
    /\ response[1].body = [kind |-> "json", value |-> StatusPartial]
    /\ _status = StatusPartial
    /\ name = "Mill 2" /\ version = "" /\ mac_address = None

(* C5: the snapshot starts empty and changes only in the step that        *)
(* completes a successful get_status / connect; until such a step has     *)
(* happened the snapshot is empty, version and name are "" and            *)
(* mac_address is None.                                                   *)
C5_OnlyStatusFetchWritesSnapshot ==
    /\ [][_status' # _status
            => \E t \in Tasks :
                  Completes(t) /\ IsStatusCall(op[t]) /\ outcome[t].kind = "return"]_vars
    /\ [](~lastOk.set
            => (_status = EmptyDict /\ version = "" /\ name = "" /\ mac_address = None))

C5_Witness ==
    /\ Succeeded(1) /\ op[1].name = "fetch_heater_and_sensor_data"
    /\ result[1].value = StatusFull
    /\ ~lastOk.set /\ _status = EmptyDict /\ mac_address = None

ErrorTexts(e) == {e.type, e.message}

C8_OneRequestPerCall ==
    /\ [](\A t \in Tasks :
             /\ Len(sent[t]) <= 1
             /\ pc[t] # "idle" => Len(sent[t]) = 1)
    /\ [][\A t \in Tasks : pc[t] \in {"awaiting", "reading", "exiting"}
                               => sent'[t] = sent[t]]_vars

C8_Witness ==
    /\ Failed(1) /\ op[1].name = "set_target_temperature"
    /\ result[1].error = ClientConnectionError
    /\ Len(sent[1]) = 1

(* C9: when no call is in flight, the snapshot is the mapping returned by *)
(* the successful get_status / connect that completed last (empty if none  *)
(* has), whatever failed or non-status calls completed after it.           *)
C9_LastCompletedStatusWins ==
    (\A t \in Tasks : pc[t] \in {"idle", "done"})
        => _status = (IF lastOk.set THEN lastOk.value ELSE EmptyDict)

C9_Witness ==
    /\ \A t \in Tasks : pc[t] = "done"
    /\ op[1].name = "get_status" /\ result[1] = Return(StatusFull)
    /\ op[2].name = "get_status" /\ result[2] = Return(StatusPartial)
    /\ _status = StatusFull /\ lastOk.value = StatusFull

(* The request each public method is to send, spelled out *)
ExpectedRequest(c) ==
    CASE IsStatusCall(c) ->
             [method |-> "GET", url |-> HttpScheme \o device_ip \o <<"/">> \o CmdStatus,
              data |-> <<>>]
      [] c.name = "fetch_heater_and_sensor_data" ->
             [method |-> "GET", url |-> HttpScheme \o device_ip \o <<"/">> \o CmdControlStatus,
              data |-> <<>>]
      [] c.name = "set_target_temperature" ->
             [method |-> "POST", url |-> HttpScheme \o device_ip \o <<"/">> \o CmdSetTemperature,
              data |-> <<"{", "\"", "type", "\"", ": ", "\"", "Normal", "\"", ", ",
                         "\"", "value", "\"", ": ", c.arg, "}">>]
      [] c.name = "set_operation_mode_control_individually" ->
             [method |-> "POST", url |-> HttpScheme \o device_ip \o <<"/">> \o CmdOperationMode,
              data |-> <<"{", "\"", "mode", "\"", ": ", "\"", "Control individually", "\"", "}">>]
      [] c.name = "set_operation_mode_off" ->
             [method |-> "POST", url |-> HttpScheme \o device_ip \o <<"/">> \o CmdOperationMode,
              data |-> <<"{", "\"", "mode", "\"", ": ", "\"", "OFF", "\"", "}">>]

(* C10: every call has sent exactly the request fixed for its method, to  *)
(* http://{address}/{path} with the address free of "/" and of            *)
(* surrounding whitespace, and a command method that succeeds returns      *)
(* None.                                                                   *)
C10_FixedRequestPerOperation ==
    /\ \A i \in 1..Len(device_ip) : device_ip[i] # "/"
    /\ device_ip # <<>> => (device_ip[1] \notin Whitespace
                            /\ device_ip[Len(device_ip)] \notin Whitespace)
    /\ \A t \in Tasks :
          pc[t] # "idle" =>
              /\ sent[t] = <<ExpectedRequest(op[t])>>
              /\ (Succeeded(t) /\ IsCommandCall(op[t])) => result[t] = ReturnNone

C10_Witness ==
    /\ Succeeded(1) /\ op[1] = [name |-> "set_target_temperature", arg |-> "20.5"]
    /\ result[1].none
    /\ sent[1][1].method = "POST"
    /\ sent[1][1].url = <<"h", "t", "t", "p", ":", "/", "/", "m", "3", "/">> \o CmdSetTemperature

(* A device address that is already a bare host *)
IsBareHost(raw) ==
    /\ raw # <<>>
    /\ \A i \in 1..Len(raw) : raw[i] # "/"
    /\ raw[1] \notin Whitespace /\ raw[Len(raw)] \notin Whitespace

(* C11: the address a client holds is a fixed point of the constructor's  *)
(* normalization (normalizing it again gives the same address, free of    *)
(* "/" and of surrounding whitespace) and url is "http://" followed by    *)
(* it; a client built for a bare host holds that host unchanged.          *)
C11_NormalizeIdempotent ==
    /\ Normalize(device_ip) = device_ip
    /\ \A i \in 1..Len(device_ip) : device_ip[i] # "/"
    /\ Strip(device_ip) = device_ip
    /\ url = HttpScheme \o device_ip
    /\ \A raw \in RawInputs :
          (IsBareHost(raw) /\ Normalize(raw) = device_ip)
              => (device_ip = raw /\ url = HttpScheme \o raw)

C11_Witness ==
    /\ device_ip = <<"h", "t", "t", "p", ":">>
    /\ url = <<"h", "t", "t", "p", ":", "/", "/", "h", "t", "t", "p", ":">>
    /\ Normalize(<<"h", "t">> \o HttpScheme \o <<"t", "p", ":", "/", "/">>) = device_ip

====
